---- MODULE Spec2Model ----
(***************************************************************************)
(* Model of the mathematical core of Presentation_Animation.py: the class  *)
(* EffortModel with its parameters and the four functions f, c, payoff and *)
(* e_star.                                                                 *)
(*                                                                         *)
(* Numbers.  The source computes with Python/numpy floating point numbers. *)
(* The model computes with exact real numbers of the form                  *)
(*        c * cbrt(w)      c rational, w a cube-free positive integer,     *)
(* which is closed under everything the four functions do on the inputs    *)
(* the model draws (rational coefficients and multipliers, efforts that    *)
(* are squares of rationals or results of e_star).  Floating point         *)
(* rounding is not modelled.  The outcomes that are not real numbers are   *)
(* kept apart: "nan" (np.sqrt of a negative number), "complex" (a negative *)
(* float raised to 2/3), "raise" (ZeroDivisionError) and "inexact" (a real *)
(* number outside the representation).                                     *)
(***************************************************************************)
EXTENDS Integers, Sequences, FiniteSets, TLC

(***************************************************************************)
(* Rationals: <<n, d>> with d > 0 and gcd(n, d) = 1.                       *)
(***************************************************************************)
RECURSIVE GCD(_, _)
GCD(a, b) == IF b = 0 THEN a ELSE GCD(b, a % b)

Abs(n) == IF n < 0 THEN -n ELSE n

Rat(n, d) ==
    LET s == IF d < 0 THEN -1 ELSE 1
        g == GCD(Abs(n), Abs(d))
    IN  <<(s * n) \div g, (s * d) \div g>>

RInt(n) == <<n, 1>>
RZero == RInt(0)
ROne == RInt(1)
RNeg(a) == <<-a[1], a[2]>>
RAdd(a, b) == Rat(a[1] * b[2] + b[1] * a[2], a[2] * b[2])
RSub(a, b) == RAdd(a, RNeg(b))
RMul(a, b) == Rat(a[1] * b[1], a[2] * b[2])
RInv(a) == Rat(a[2], a[1])
RDiv(a, b) == RMul(a, RInv(b))
RSign(a) == IF a[1] < 0 THEN -1 ELSE IF a[1] = 0 THEN 0 ELSE 1

\* a < b, by the continued-fraction expansions of a and b, so that no
\* cross product is formed.
RECURSIVE RLess(_, _)
RLess(a, b) ==
    LET qa == a[1] \div a[2]
        qb == b[1] \div b[2]
        ra == a[1] % a[2]
        rb == b[1] % b[2]
    IN  IF qa # qb THEN qa < qb
        ELSE IF rb = 0 THEN FALSE
        ELSE IF ra = 0 THEN TRUE
        ELSE RLess(<<b[2], rb>>, <<a[2], ra>>)

RLeq(a, b) == ~RLess(b, a)

(***************************************************************************)
(* Integer roots.                                                          *)
(***************************************************************************)
Pow(m, p) == IF p = 2 THEN m * m ELSE m * m * m

\* the largest m with m^p <= n, by bisection of lo .. hi  (p is 2 or 3,
\* lo^p <= n < (hi + 1)^p)
RECURSIVE RootIn(_, _, _, _)
RootIn(n, p, lo, hi) ==
    IF lo = hi THEN lo
    ELSE LET mid == (lo + hi + 1) \div 2
         IN  IF Pow(mid, p) <= n THEN RootIn(n, p, mid, hi)
             ELSE RootIn(n, p, lo, mid - 1)

\* 46340^2 and 1290^3 are the largest square and cube below 2^31
SqrtFloor(n) == RootIn(n, 2, 0, 46340)
CbrtFloor(n) == RootIn(n, 3, 0, 1290)

Max(S) == CHOOSE m \in S : \A x \in S : x <= m

\* the largest m with m^2 (m^3) dividing n, n >= 1
SquarePart(n) == Max({m \in 1 .. SqrtFloor(n) : n % Pow(m, 2) = 0})
CubePart(n) == Max({m \in 1 .. CbrtFloor(n) : n % Pow(m, 3) = 0})

IsSquare(n) == n >= 0 /\ SqrtFloor(n) * SqrtFloor(n) = n

(***************************************************************************)
(* Values: the outcomes of a float expression of the source.               *)
(***************************************************************************)
Real(c, w) == [kind |-> "real", c |-> c, w |-> w]
Special(kind) == [kind |-> kind, c |-> RZero, w |-> 1]
NaN == Special("nan")
Complex == Special("complex")
Raise == Special("raise")
Inexact == Special("inexact")

IsReal(x) == x.kind = "real"

\* c * cbrt(n) in normal form, n a positive integer
Norm(c, n) ==
    IF c[1] = 0 THEN Real(RZero, 1)
    ELSE LET m == CubePart(n)
         IN  Real(RMul(c, RInt(m)), n \div (m * m * m))

FromRat(a) == Real(a, 1)
FromInt(n) == FromRat(RInt(n))
Zero == FromInt(0)

\* an operand that is no real number makes the result that operand
Strict2(x, y, v) == IF ~IsReal(x) THEN x ELSE IF ~IsReal(y) THEN y ELSE v

Mul(x, y) == Strict2(x, y, Norm(RMul(x.c, y.c), x.w * y.w))

Neg(x) == IF IsReal(x) THEN Real(RNeg(x.c), x.w) ELSE x

\* x + y for like radicals (or a zero operand)
Add(x, y) ==
    Strict2(x, y,
        IF x.c[1] = 0 THEN y
        ELSE IF y.c[1] = 0 THEN x
        ELSE IF x.w = y.w THEN Norm(RAdd(x.c, y.c), x.w)
        ELSE Inexact)

Sub(x, y) == Add(x, Neg(y))

\* 1 / x for a real x # 0:  1/(c*cbrt(w)) = cbrt(w^2) / (c*w)
Inv(x) == Norm(RInv(RMul(x.c, RInt(x.w))), x.w * x.w)

Sign(x) == RSign(x.c)

\* c1*cbrt(w1) < c2*cbrt(w2) for positive c1, c2:  (c1/c2)^3 < w2/w1,
\* decided as  z^2 < (w2/w1)/z
PosLess(c1, w1, c2, w2) ==
    LET z == RDiv(c1, c2)
    IN  RLess(RMul(z, z), RDiv(Rat(w2, w1), z))

\* x < y for real x, y
Less(x, y) ==
    IF x.w = y.w THEN RLess(x.c, y.c)
    ELSE IF Sign(x) <= 0 /\ Sign(y) >= 0 THEN TRUE
    ELSE IF Sign(x) >= 0 /\ Sign(y) <= 0 THEN FALSE
    ELSE IF Sign(x) > 0 THEN PosLess(x.c, x.w, y.c, y.w)
    ELSE PosLess(RNeg(y.c), y.w, RNeg(x.c), x.w)

Leq(x, y) == ~Less(y, x)

(***************************************************************************)
(* The float operations the four functions use.                           *)
(***************************************************************************)
\* np.sqrt(x): nan for a negative x, else the y >= 0 with y * y = x.
\* For x = c * cbrt(u * v^2), u and v square-free:  y = sqrt(c/u) * cbrt(v * u^2).
Sqrt(x) ==
    IF ~IsReal(x) THEN x
    ELSE IF Sign(x) < 0 THEN NaN
    ELSE IF Sign(x) = 0 THEN Zero
    ELSE LET v == SquarePart(x.w)
             u == x.w \div (v * v)
             q == RDiv(x.c, RInt(u))
             y == Real(<<SqrtFloor(q[1]), SqrtFloor(q[2])>>, v * u * u)
         IN  IF IsSquare(q[1]) /\ IsSquare(q[2]) /\ Mul(y, y) = x
             THEN y ELSE Inexact

\* x ** 2
Square(x) == Mul(x, x)

\* x ** (2 / 3): a complex number for a negative float x, else the y >= 0
\* with y^3 = x^2.  For a rational x = n/d:  y = cbrt(n^2 * d) / d.
Pow23(x) ==
    IF ~IsReal(x) THEN x
    ELSE IF Sign(x) < 0 THEN Complex
    ELSE IF Sign(x) = 0 THEN Zero
    ELSE LET y == Norm(<<1, x.c[2]>>, x.c[1] * x.c[1] * x.c[2])
         IN  IF x.w = 1 /\ Mul(Mul(y, y), y) = Square(x) THEN y ELSE Inexact

\* x / y: ZeroDivisionError for y = 0
Div(x, y) ==
    Strict2(x, y, IF Sign(y) = 0 THEN Raise ELSE Mul(x, Inv(y)))

(***************************************************************************)
(* class EffortModel: the parameters.                                      *)
(***************************************************************************)
F_COEFF == 5
C_COEFF == 5
SHARE == Rat(1, 2)
ALPHA == Rat(1, 4)
\* LAMBDA in the source (a reserved word here)
LAMBDA_ == Rat(7, 5)
DefaultK == ROne

\* Bounds of the model
MaxCoeff == 1
MaxDen == 3
MaxK == 1

\* the values the two coefficients are edited to ("PARAMETERS - EDIT THESE")
CoeffSet == (-1 .. MaxCoeff) \cup {F_COEFF, C_COEFF}
ShareSet == {RZero, SHARE, ROne}

\* the multipliers of the four treatments (control, altruism, loss aversion,
\* combined), as construct passes them
Treatments(self) == {DefaultK, self.ALPHA, self.LAMBDA_, RMul(self.LAMBDA_, self.ALPHA)}

\* multipliers a caller passes
KSet(self) == {RInt(n) : n \in -1 .. MaxK} \cup Treatments(self)

\* efforts a caller passes: s^2 and -(s^2) for s = 0, 1/MaxDen, .. (MaxDen+1)/MaxDen
RootGrid == {Rat(a, MaxDen) : a \in 0 .. MaxDen + 1}
EffortGrid ==
    {FromRat(RMul(s, s)) : s \in RootGrid} \cup {FromRat(RNeg(RMul(s, s))) : s \in RootGrid}

(***************************************************************************)
(* class EffortModel: the four functions.  self is the record of the       *)
(* class attributes, e a value, k a rational.                              *)
(***************************************************************************)
\* Faulty variants of the four functions, each with one plausible slip; the
\* properties below are checked to tell them from the functions.
\* f without its guard for a negative effort
f_NoGuard(self, e) == Mul(FromRat(self.F_COEFF), Sqrt(e))

\* c with the clamp of f
c_Clamped(self, e) ==
    IF Less(e, Zero) THEN Zero
    ELSE Mul(FromRat(self.C_COEFF), Square(e))

\* payoff without its guard for an effort <= 0
payoff_NoGuard(self, e, k) ==
    Sub(Mul(Mul(FromRat(k), FromRat(self.F_COEFF)), Sqrt(e)),
        Mul(FromRat(self.C_COEFF), Square(e)))

\* payoff with the benefit scaled by SHARE, as in the formula construct displays
payoff_Shared(self, e, k) ==
    IF Leq(e, Zero) THEN Zero
    ELSE Sub(Mul(Mul(Mul(FromRat(k), FromRat(self.SHARE)), FromRat(self.F_COEFF)),
                 Sqrt(e)),
             Mul(FromRat(self.C_COEFF), Square(e)))

\* e_star without the test denominator == 0
e_star_NoZeroGuard(self, k) ==
    LET numerator == Mul(FromRat(self.F_COEFF), FromRat(k))
        denominator == Mul(FromInt(4), FromRat(self.C_COEFF))
        ratio == Div(numerator, denominator)
    IN  IF IsReal(ratio) /\ Less(ratio, Zero)
        THEN [ret |-> Zero, divided |-> TRUE, powered |-> FALSE]
        ELSE [ret |-> Pow23(ratio), divided |-> TRUE, powered |-> TRUE]

\* e_star without the test numerator / denominator < 0
e_star_NoNegativeGuard(self, k) ==
    LET numerator == Mul(FromRat(self.F_COEFF), FromRat(k))
        denominator == Mul(FromInt(4), FromRat(self.C_COEFF))
        ratio == Div(numerator, denominator)
    IN  IF Sign(denominator) = 0
        THEN [ret |-> Zero, divided |-> FALSE, powered |-> FALSE]
        ELSE [ret |-> Pow23(ratio), divided |-> TRUE, powered |-> TRUE]

\* e_star with the denominator 2 * C_COEFF
e_star_HalfDenominator(self, k) ==
    LET numerator == Mul(FromRat(self.F_COEFF), FromRat(k))
        denominator == Mul(FromInt(2), FromRat(self.C_COEFF))
        ratio == Div(numerator, denominator)
    IN  IF Sign(denominator) = 0
        THEN [ret |-> Zero, divided |-> FALSE, powered |-> FALSE]
        ELSE IF Less(ratio, Zero)
        THEN [ret |-> Zero, divided |-> TRUE, powered |-> FALSE]
        ELSE [ret |-> Pow23(ratio), divided |-> TRUE, powered |-> TRUE]

\* e_star with numerator and denominator exchanged
e_star_Swapped(self, k) ==
    LET numerator == Mul(FromInt(4), FromRat(self.C_COEFF))
        denominator == Mul(FromRat(self.F_COEFF), FromRat(k))
        ratio == Div(numerator, denominator)
    IN  IF Sign(denominator) = 0
        THEN [ret |-> Zero, divided |-> FALSE, powered |-> FALSE]
        ELSE IF Less(ratio, Zero)
        THEN [ret |-> Zero, divided |-> TRUE, powered |-> FALSE]
        ELSE [ret |-> Pow23(ratio), divided |-> TRUE, powered |-> TRUE]

\* def f(self, e)
f(self, e) ==
    IF Less(e, Zero) THEN Zero
    ELSE Mul(FromRat(self.F_COEFF), Sqrt(e))

\* def c(self, e)
c(self, e) == Mul(FromRat(self.C_COEFF), Square(e))

\* def payoff(self, e, k=1.0)
payoff(self, e, k) ==
    IF Leq(e, Zero) THEN Zero
    ELSE Sub(Mul(Mul(FromRat(k), FromRat(self.F_COEFF)), Sqrt(e)),
             Mul(FromRat(self.C_COEFF), Square(e)))

\* def e_star(self, k): the value returned (ret), with whether the division
\* and the power were evaluated on the way
e_star(self, k) ==
    LET numerator == Mul(FromRat(self.F_COEFF), FromRat(k))
        denominator == Mul(FromInt(4), FromRat(self.C_COEFF))
        ratio == Div(numerator, denominator)
    IN  IF Sign(denominator) = 0
        THEN [ret |-> Zero, divided |-> FALSE, powered |-> FALSE]
        ELSE IF Less(ratio, Zero)
        THEN [ret |-> Zero, divided |-> TRUE, powered |-> FALSE]
        ELSE [ret |-> Pow23(ratio), divided |-> TRUE, powered |-> TRUE]

(***************************************************************************)
(* The state: the class attributes (self), a second model that differs     *)
(* from it in SHARE only (twin), the call of one of the four functions     *)
(* that has just returned, with what it returned on both models (call),    *)
(* and the optimum the caller keeps from its latest e_star call, as        *)
(* construct keeps e_control, e_alt, e_loss and e_comb (lastOpt).          *)
(* run is the rendering run of construct: where it is (at: "off" when no   *)
(* run is under way, "construct" at the QUICK_TEST branch, "full" or       *)
(* "quick" inside the sequence of calls, "done" after the last one), the   *)
(* position pc in that sequence, the locals, and the first result of every *)
(* call the run has made.                                                  *)
(***************************************************************************)
VARIABLES self, twin, call, lastOpt, run

vars == <<self, twin, call, lastOpt, run>>

Params(F, C, S) ==
    [F_COEFF |-> RInt(F), C_COEFF |-> RInt(C), SHARE |-> S,
     ALPHA |-> ALPHA, LAMBDA_ |-> LAMBDA_]

NoCall ==
    [op |-> "none", e |-> Zero, k |-> RZero, defaultK |-> FALSE,
     ret |-> Zero, twinRet |-> Zero, divided |-> FALSE, powered |-> FALSE]

NoOpt == [k |-> RZero, ret |-> Special("none")]

NoValue == Special("none")
Locals == {"e_optimal", "e_equilibrium", "e_control", "e_alt", "e_loss", "e_comb"}

\* the run record: QUICK_TEST, the position, the local k_combined, the
\* locals that keep an optimum, and the calls made with their first results
RunAt(quick, at) ==
    [QUICK_TEST |-> quick, at |-> at, pc |-> 0, k_combined |-> RZero,
     kept |-> [l \in Locals |-> NoValue], memo |-> {}]

\* no rendering run: the four functions are called from outside construct
NoRun == RunAt(FALSE, "off")
Rendering == run.at # "off"

\* efforts a caller passes: the grid and, as construct does, the optimum it keeps
Efforts == EffortGrid \cup (IF IsReal(lastOpt.ret) THEN {lastOpt.ret} ELSE {})

Init ==
    /\ \E F \in CoeffSet, C \in CoeffSet, S \in ShareSet \ {SHARE} :
          /\ self = Params(F, C, SHARE)
          /\ twin = Params(F, C, S)
    /\ call = NoCall
    /\ lastOpt = NoOpt
    /\ run = NoRun

Returned(op, e, k, dflt, r, tr) ==
    [op |-> op, e |-> e, k |-> k, defaultK |-> dflt,
     ret |-> r.ret, twinRet |-> tr.ret,
     divided |-> r.divided, powered |-> r.powered]

Plain(v) == [ret |-> v, divided |-> FALSE, powered |-> FALSE]

Idle == call.op = "none" /\ ~Rendering

\* self.f(e)
CallF ==
    \E e \in Efforts :
        /\ Idle
        /\ call' = Returned("f", e, RZero, FALSE, Plain(f(self, e)), Plain(f(twin, e)))
        /\ UNCHANGED <<self, twin, lastOpt, run>>

\* self.c(e)
CallC ==
    \E e \in Efforts :
        /\ Idle
        /\ call' = Returned("c", e, RZero, FALSE, Plain(c(self, e)), Plain(c(twin, e)))
        /\ UNCHANGED <<self, twin, lastOpt, run>>

\* self.payoff(e, k)
CallPayoff ==
    \E e \in Efforts, k \in KSet(self) :
        /\ Idle
        /\ call' = Returned("payoff", e, k, FALSE,
                            Plain(payoff(self, e, k)), Plain(payoff(twin, e, k)))
        /\ UNCHANGED <<self, twin, lastOpt, run>>

\* self.payoff(e)
CallPayoffDefault ==
    \E e \in Efforts :
        /\ Idle
        /\ call' = Returned("payoff", e, DefaultK, TRUE,
                            Plain(payoff(self, e, DefaultK)),
                            Plain(payoff(twin, e, DefaultK)))
        /\ UNCHANGED <<self, twin, lastOpt, run>>

\* self.e_star(k)
CallEStar ==
    \E k \in KSet(self) :
        /\ Idle
        /\ call' = Returned("e_star", Zero, k, FALSE, e_star(self, k), e_star(twin, k))
        /\ UNCHANGED <<self, twin, lastOpt, run>>

\* the caller takes the returned value: it plots it, and it keeps an optimum
\* (e_control = self.e_star(1.0)) for the calls that follow
Use ==
    /\ call.op # "none"
    /\ ~Rendering
    /\ lastOpt' = IF call.op = "e_star" THEN [k |-> call.k, ret |-> call.ret]
                  ELSE lastOpt
    /\ call' = NoCall
    /\ UNCHANGED <<self, twin, run>>

Next ==
    \/ CallF
    \/ CallC
    \/ CallPayoff
    \/ CallPayoffDefault
    \/ CallEStar
    \/ Use

Spec == Init /\ [][Next]_vars

(***************************************************************************)
(* The rendering run.  construct calls the four functions in a fixed       *)
(* order; Site is one call site: the source line, the function, the effort *)
(* (a value, or the local that holds it), the multiplier (the literal 1.0, *)
(* self.ALPHA, self.LAMBDA or the local k_combined) and the local that     *)
(* keeps the result.  axes.plot evaluates its lambda at sample points of   *)
(* x_range = [0, 1]; the samples of the model are the squares of the       *)
(* multiples of 1/MaxDen, in increasing order.                             *)
(***************************************************************************)
Site(line, op, e, loc, k, keep) ==
    [line |-> line, op |-> op, e |-> e, loc |-> loc, k |-> k, keep |-> keep]

PlotSeq == [i \in 1 .. MaxDen + 1 |-> FromRat(Rat((i - 1) * (i - 1), MaxDen * MaxDen))]

Plot(line, op, k) == [i \in 1 .. Len(PlotSeq) |-> Site(line, op, PlotSeq[i], "", k, "")]

\* e_tracker runs from 0.1 to 0.8
TrackerStart == FromRat(Rat(1, 10))
TrackerEnd == FromRat(Rat(4, 5))
Between(e) == Less(TrackerStart, e) /\ Less(e, TrackerEnd)
TrackSeq == <<TrackerStart>> \o SelectSeq(PlotSeq, Between) \o <<TrackerEnd>>

\* one redraw of gap_line and gap_label at the tracker's value
Frame(e, loc) ==
    << Site(161, "c", e, loc, "", ""), Site(162, "f", e, loc, "", ""),
       Site(172, "f", e, loc, "", ""), Site(172, "c", e, loc, "", "") >>

Frames(seq) == [i \in 1 .. 4 * Len(seq) |-> Frame(seq[((i - 1) \div 4) + 1], "")[((i - 1) % 4) + 1]]

\* local = self.e_star(k)
Star(line, k, keep) == Site(line, "e_star", NoValue, "", k, keep)
\* coords_to_point(local, self.payoff(local, k))
Mark(line, loc, k) == Site(line, "payoff", NoValue, loc, k, "")
\* k_combined = self.LAMBDA * self.ALPHA
KComb(line) == Site(line, "k_combined", NoValue, "", "", "")

FullScript ==
    Plot(141, "f", "") \o Plot(142, "c", "")
    \o << Site(146, "f", TrackerEnd, "", "", ""),
          Site(149, "c", FromRat(Rat(3, 4)), "", "", "") >>
    \o Frames(TrackSeq)
    \o << Star(183, "one", "e_optimal") >>
    \o Frame(NoValue, "e_optimal")
    \o << Star(187, "one", "e_equilibrium") >>
    \o Plot(280, "payoff", "one")
    \o << Star(288, "one", "e_control"), Mark(291, "e_control", "one") >>
    \o Plot(387, "payoff", "one") \o Plot(400, "payoff", "alpha")
    \o << Star(411, "alpha", "e_alt"), Mark(414, "e_alt", "alpha"),
          Star(422, "one", "e_control"), Mark(425, "e_control", "one") >>
    \o Plot(527, "payoff", "one") \o Plot(540, "payoff", "lambda")
    \o << Star(551, "lambda", "e_loss"), Mark(554, "e_loss", "lambda"),
          Mark(564, "e_control", "one") >>
    \o << KComb(616) >>
    \o Plot(664, "payoff", "one") \o Plot(677, "payoff", "comb")
    \o << Star(688, "comb", "e_comb"), Mark(691, "e_comb", "comb"),
          Mark(701, "e_control", "one") >>
    \o Plot(739, "payoff", "one") \o Plot(742, "payoff", "alpha")
    \o Plot(745, "payoff", "lambda")
    \o << KComb(748) >>
    \o Plot(750, "payoff", "comb")
    \o << Star(763, "one", "e_control"), Star(764, "alpha", "e_alt"),
          Star(765, "lambda", "e_loss"), Star(766, "comb", "e_comb") >>
    \o << Mark(771, "e_control", "one"), Mark(777, "e_alt", "alpha"),
          Mark(783, "e_loss", "lambda"), Mark(789, "e_comb", "comb") >>

QuickScript ==
    << KComb(866) >>
    \o Plot(869, "payoff", "one") \o Plot(872, "payoff", "alpha")
    \o Plot(875, "payoff", "lambda") \o Plot(878, "payoff", "comb")

Script == IF run.at = "quick" THEN QuickScript ELSE FullScript

AtSite(op) == run.at \in {"full", "quick"} /\ Script[run.pc].op = op

\* the effort and the multiplier the call site passes
SiteEffort == IF Script[run.pc].loc = "" THEN Script[run.pc].e
              ELSE run.kept[Script[run.pc].loc]

SiteK ==
    CASE Script[run.pc].k = "one" -> DefaultK
      [] Script[run.pc].k = "alpha" -> self.ALPHA
      [] Script[run.pc].k = "lambda" -> self.LAMBDA_
      [] Script[run.pc].k = "comb" -> run.k_combined
      [] OTHER -> RZero

InitRender ==
    /\ \E F \in CoeffSet, C \in CoeffSet :
           /\ self = Params(F, C, SHARE)
           /\ \E S \in ShareSet \ {SHARE} : twin = Params(F, C, S)
    /\ call = NoCall
    /\ lastOpt = NoOpt
    /\ \E quick \in BOOLEAN : run = RunAt(quick, "construct")

\* the run with the call noted (its first result is the one kept) and the
\* position moved past the site
Noted(r, op, e, k, ret) ==
    IF \E m \in r.memo : m.op = op /\ m.e = e /\ m.k = k
    THEN r
    ELSE [r EXCEPT !.memo = @ \cup {[op |-> op, e |-> e, k |-> k, ret |-> ret]}]

Advance(r) ==
    [r EXCEPT !.pc = @ + 1,
              !.at = IF run.pc = Len(Script) THEN "done" ELSE @]

\* construct: if self.QUICK_TEST: self.quick_test_mode(); return
Construct ==
    /\ run.at = "construct"
    /\ run' = [run EXCEPT !.at = IF run.QUICK_TEST THEN "quick" ELSE "full",
                          !.pc = 1]
    /\ UNCHANGED <<self, twin, call, lastOpt>>

RunF ==
    /\ AtSite("f")
    /\ call' = Returned("f", SiteEffort, RZero, FALSE,
                        Plain(f(self, SiteEffort)), Plain(f(twin, SiteEffort)))
    /\ run' = Advance(Noted(run, "f", SiteEffort, RZero, f(self, SiteEffort)))
    /\ UNCHANGED <<self, twin, lastOpt>>

RunC ==
    /\ AtSite("c")
    /\ call' = Returned("c", SiteEffort, RZero, FALSE,
                        Plain(c(self, SiteEffort)), Plain(c(twin, SiteEffort)))
    /\ run' = Advance(Noted(run, "c", SiteEffort, RZero, c(self, SiteEffort)))
    /\ UNCHANGED <<self, twin, lastOpt>>

RunPayoff ==
    /\ AtSite("payoff")
    /\ call' = Returned("payoff", SiteEffort, SiteK, FALSE,
                        Plain(payoff(self, SiteEffort, SiteK)),
                        Plain(payoff(twin, SiteEffort, SiteK)))
    /\ run' = Advance(Noted(run, "payoff", SiteEffort, SiteK,
                            payoff(self, SiteEffort, SiteK)))
    /\ UNCHANGED <<self, twin, lastOpt>>

\* faulty variant: the object remembers the multiplier of the previous
\* e_star call and applies it again
RunEStar_Stateful ==
    /\ AtSite("e_star")
    /\ LET k == IF lastOpt.ret = NoValue THEN SiteK ELSE RMul(SiteK, lastOpt.k)
       IN  /\ call' = Returned("e_star", Zero, SiteK, FALSE,
                               e_star(self, k), e_star(twin, k))
           /\ lastOpt' = [k |-> SiteK, ret |-> e_star(self, k).ret]
           /\ run' = Advance(Noted([run EXCEPT !.kept[Script[run.pc].keep] =
                                                   e_star(self, k).ret],
                                   "e_star", Zero, SiteK, e_star(self, k).ret))
    /\ UNCHANGED <<self, twin>>

RunEStar ==
    /\ AtSite("e_star")
    /\ call' = Returned("e_star", Zero, SiteK, FALSE,
                        e_star(self, SiteK), e_star(twin, SiteK))
    /\ lastOpt' = [k |-> SiteK, ret |-> e_star(self, SiteK).ret]
    /\ run' = Advance(Noted([run EXCEPT !.kept[Script[run.pc].keep] =
                                            e_star(self, SiteK).ret],
                            "e_star", Zero, SiteK, e_star(self, SiteK).ret))
    /\ UNCHANGED <<self, twin>>

\* faulty variant: the combined factor is the sum of the two factors
RunKCombined_Sum ==
    /\ AtSite("k_combined")
    /\ run' = Advance([run EXCEPT !.k_combined = RAdd(self.LAMBDA_, self.ALPHA)])
    /\ UNCHANGED <<self, twin, call, lastOpt>>

\* faulty variant: the combined factor is stored on the object, over ALPHA
RunKCombined_StoredOnSelf ==
    /\ AtSite("k_combined")
    /\ self' = [self EXCEPT !.ALPHA = RMul(self.LAMBDA_, self.ALPHA)]
    /\ run' = Advance([run EXCEPT !.k_combined = RMul(self.LAMBDA_, self.ALPHA)])
    /\ UNCHANGED <<twin, call, lastOpt>>

RunKCombined ==
    /\ AtSite("k_combined")
    /\ run' = Advance([run EXCEPT !.k_combined = RMul(self.LAMBDA_, self.ALPHA)])
    /\ UNCHANGED <<self, twin, call, lastOpt>>

NextRender ==
    \/ Construct
    \/ RunF
    \/ RunC
    \/ RunPayoff
    \/ RunEStar
    \/ RunKCombined

\* the program: the four functions called from outside, or a rendering run
Program == (Init \/ InitRender) /\ [][Next \/ NextRender]_vars

(***************************************************************************)
(* Properties.                                                             *)
(***************************************************************************)
F == FromRat(self.F_COEFF)
C == FromRat(self.C_COEFF)
K == FromRat(call.k)
PosCoeffs == Sign(F) > 0 /\ Sign(C) > 0
Returns(op) == call.op = op

\* the payoff at the optimum of the multiplier of the call
OptimalPayoff == payoff(self, e_star(self, call.k).ret, call.k)

\* C1: with positive coefficients and a multiplier k > 0, no effort e >= 0
\* has a payoff above the payoff at e_star(k).
C1_OptimumMaximizesPayoff ==
    (Returns("payoff") /\ PosCoeffs /\ Sign(K) > 0 /\ Sign(call.e) >= 0)
        => /\ IsReal(call.ret)
           /\ IsReal(OptimalPayoff)
           /\ Leq(call.ret, OptimalPayoff)

\* an effort that is itself an optimum (of another multiplier) was compared
\* and pays strictly less
C1_Witness ==
    /\ Returns("payoff") /\ PosCoeffs /\ Sign(K) > 0
    /\ call.e.w # 1
    /\ Sign(call.ret) > 0
    /\ Less(call.ret, OptimalPayoff)

\* C2: with positive coefficients and k > 0 the result r of e_star(k) is
\* positive and solves the first-order condition: r^3 * (4C)^2 = (F*k)^2 and
\* k*F / (2*sqrt(r)) = 2*C*r.
C2_FirstOrderCondition ==
    (Returns("e_star") /\ PosCoeffs /\ Sign(K) > 0)
        => LET r == call.ret
           IN  /\ IsReal(r)
               /\ Sign(r) > 0
               /\ Mul(Mul(Mul(r, r), r), Square(Mul(FromInt(4), C))) = Square(Mul(F, K))
               /\ Div(Mul(K, F), Mul(FromInt(2), Sqrt(r))) = Mul(Mul(FromInt(2), C), r)

\* an irrational optimum was returned
C2_Witness ==
    /\ Returns("e_star") /\ PosCoeffs /\ Sign(K) > 0
    /\ call.ret.w # 1
    /\ call.powered

\* the sign of the ratio F*k / (4*C) for C # 0
RatioSign == Sign(F) * Sign(K) * Sign(C)

\* C3, as claimed: for every cost coefficient <= 0, e_star returns 0.
C3_NonPositiveCostGivesZero ==
    (Returns("e_star") /\ Sign(C) <= 0) => call.ret = Zero

\* C3, what e_star does instead: no call fails; e_star returns 0 for a cost
\* coefficient 0 and for a negative one with F*k >= 0; for a negative cost
\* coefficient with F*k < 0 the ratio is positive and e_star returns the
\* positive (ratio)^(2/3), a stationary point that minimizes the payoff.
C3_NoFailureZeroUnlessPositiveRatio ==
    /\ IsReal(call.ret)
    /\ (Returns("e_star") /\ Sign(C) <= 0 /\ RatioSign <= 0) => call.ret = Zero
    /\ (Returns("e_star") /\ Sign(C) < 0 /\ RatioSign > 0)
          => /\ Sign(call.ret) > 0
             /\ Mul(Mul(call.ret, call.ret), call.ret)
                    = Square(Div(Mul(F, K), Mul(FromInt(4), C)))

\* a negative cost coefficient with F*k < 0: a positive result
C3_Witness ==
    /\ Returns("e_star") /\ Sign(C) < 0 /\ Sign(F) * Sign(K) < 0
    /\ Sign(call.ret) > 0

\* C4: e_star returns exactly 0 when the cost coefficient is 0 (the division
\* is not evaluated) or the ratio F*k/(4*C) is negative; in both cases the
\* power is not computed and nothing is raised.
C4_GuardsReturnZero ==
    (Returns("e_star") /\ (Sign(C) = 0 \/ RatioSign < 0))
        => /\ call.ret = Zero
           /\ ~call.powered
           /\ (Sign(C) = 0 => ~call.divided)

\* a zero cost coefficient with a nonzero numerator
C4_Witness ==
    /\ Returns("e_star") /\ Sign(C) = 0 /\ Sign(F) * Sign(K) # 0
    /\ call.ret = Zero /\ ~call.divided

\* The four treatments by the rank of their optimum, as the specification
\* ranks them (altruism < control < combined < loss aversion) ...
ClaimedRank(k) ==
    IF k = self.ALPHA THEN 1
    ELSE IF k = DefaultK THEN 2
    ELSE IF k = RMul(self.LAMBDA_, self.ALPHA) THEN 3
    ELSE 4

\* ... and as the multipliers rank them (altruism < combined < control <
\* loss aversion)
MultiplierRank(k) ==
    IF k = self.ALPHA THEN 1
    ELSE IF k = RMul(self.LAMBDA_, self.ALPHA) THEN 2
    ELSE IF k = DefaultK THEN 3
    ELSE 4

\* the optimum kept and the optimum returned are those of two treatments of
\* the configured model (F_COEFF = 5, C_COEFF = 5, ALPHA = 0.25, LAMBDA = 1.4)
TwoTreatments ==
    /\ Returns("e_star")
    /\ self.F_COEFF = RInt(F_COEFF) /\ self.C_COEFF = RInt(C_COEFF)
    /\ self.ALPHA = ALPHA /\ self.LAMBDA_ = LAMBDA_
    /\ IsReal(lastOpt.ret)
    /\ lastOpt.k \in Treatments(self) /\ call.k \in Treatments(self)

\* C5, as claimed: e_star(ALPHA) < e_star(1.0) < e_star(LAMBDA*ALPHA) < e_star(LAMBDA)
C5_ClaimedRanking ==
    (TwoTreatments /\ ClaimedRank(lastOpt.k) < ClaimedRank(call.k))
        => Less(lastOpt.ret, call.ret)

\* C5, amended: e_star(ALPHA) < e_star(LAMBDA*ALPHA) < e_star(1.0) < e_star(LAMBDA)
C5_MultiplierRanking ==
    (TwoTreatments /\ MultiplierRank(lastOpt.k) < MultiplierRank(call.k))
        => Less(lastOpt.ret, call.ret)

\* the combined optimum is kept and the control optimum, above it, returned
C5_Witness ==
    /\ TwoTreatments
    /\ lastOpt.k = RMul(self.LAMBDA_, self.ALPHA) /\ call.k = DefaultK
    /\ Less(lastOpt.ret, call.ret)

\* C6: with positive coefficients e_star is strictly increasing in k > 0.
C6_StrictlyIncreasing ==
    (Returns("e_star") /\ PosCoeffs /\ IsReal(lastOpt.ret)
        /\ RSign(lastOpt.k) > 0 /\ RLess(lastOpt.k, call.k))
        => Less(lastOpt.ret, call.ret)

\* two optima with different radicals, the second of the larger multiplier
C6_Witness ==
    /\ Returns("e_star") /\ PosCoeffs /\ IsReal(lastOpt.ret)
    /\ RSign(lastOpt.k) > 0 /\ RLess(lastOpt.k, call.k)
    /\ lastOpt.ret.w # call.ret.w
    /\ Less(lastOpt.ret, call.ret)

\* C7: payoff(e, k) is 0 for every e <= 0 and every k; for e > 0 it is
\* k*f(e) - c(e); with k omitted the multiplier is 1.
C7_PayoffContract ==
    Returns("payoff")
        => /\ Leq(call.e, Zero) => call.ret = Zero
           /\ Less(Zero, call.e)
                 => call.ret = Sub(Mul(K, f(self, call.e)), c(self, call.e))
           /\ call.defaultK
                 => call.ret = payoff(self, call.e, RInt(1))

\* a negative effort with a negative multiplier: no cost is charged
C7_Witness ==
    /\ Returns("payoff") /\ Less(call.e, Zero) /\ Sign(K) < 0
    /\ Sign(C) > 0 /\ Sign(F) > 0
    /\ call.ret = Zero

\* C8: f(e) is 0 for e < 0 and F*sqrt(e) for e >= 0, so f(0) = 0 and
\* f(e)^2 = F^2 * e.
C8_ProductionContract ==
    Returns("f")
        => /\ IsReal(call.ret)
           /\ Less(call.e, Zero) => call.ret = Zero
           /\ Leq(Zero, call.e)
                 => /\ call.ret = Mul(F, Sqrt(call.e))
                    /\ Square(call.ret) = Mul(Square(F), call.e)
                    /\ Sign(call.ret) = Sign(F) * Sign(call.e)

\* a negative effort, clamped
C8_Witness ==
    /\ Returns("f") /\ Less(call.e, Zero) /\ Sign(F) # 0
    /\ call.ret = Zero

\* C9: c(e) is C*e^2 for every e, negative ones included, and c(e) = c(-e).
C9_CostContract ==
    Returns("c")
        => /\ call.ret = Mul(C, Mul(call.e, call.e))
           /\ call.ret = c(self, Neg(call.e))
           /\ Sign(call.ret) = Sign(C) * Sign(call.e) * Sign(call.e)

\* a negative effort with its positive cost
C9_Witness ==
    /\ Returns("c") /\ Less(call.e, Zero) /\ Sign(C) > 0
    /\ Sign(call.ret) > 0

C11_ParametersNeverModified == [][self' = self]_vars

\* a complete rendering run of the shipped parameters has ended
C11_Witness ==
    /\ run.at = "done"
    /\ ~run.QUICK_TEST
    /\ self = Params(F_COEFF, C_COEFF, SHARE)
    /\ Cardinality(run.memo) > 4

(***************************************************************************)
(* C12: every function is deterministic and independent of the history.    *)
(* A call that repeats the function and the inputs of an earlier call      *)
(* returns the result the earlier call returned, whatever calls were made  *)
(* in between: in a rendering run against the first result of every call   *)
(* the run has made, and outside a run against the optimum kept from an    *)
(* earlier e_star call.                                                    *)
(***************************************************************************)
SameInputs(m) == m.op = call.op /\ m.e = call.e /\ m.k = call.k

Passed == {m.k : m \in {x \in run.memo : x.op = "e_star"}}

\* a run passes to e_star only the four multipliers 1.0, ALPHA, LAMBDA and
\* LAMBDA * ALPHA, and k_combined holds LAMBDA * ALPHA wherever it is used
OnlyTreatments ==
    Rendering =>
        /\ Passed \subseteq Treatments(self)
        /\ Returns("e_star") => call.k \in Treatments(self)
        /\ run.at \in {"full", "quick"} /\ Script[run.pc].k = "comb" =>
               run.k_combined = RMul(self.LAMBDA_, self.ALPHA)

Configured == self = Params(F_COEFF, C_COEFF, SHARE)

C14_ControlOptimum ==
    Returns("e_star") /\ Configured /\ call.k = DefaultK =>
        /\ IsReal(call.ret)
        /\ Mul(Mul(call.ret, call.ret), call.ret) = FromRat(Rat(1, 16))
        /\ Less(FromRat(Rat(3968, 10000)), call.ret)
        /\ Less(call.ret, FromRat(Rat(3970, 10000)))

\* e_star(1.0) has returned from the power, for the shipped coefficients
C14_Witness ==
    /\ Returns("e_star")
    /\ Configured
    /\ call.k = DefaultK
    /\ call.powered

(***************************************************************************)
(* C15: for the shipped parameters the optima a rendering run keeps are    *)
(* ordered e_alt < e_comb < e_control < e_loss: altruism moves the         *)
(* equilibrium left of control, loss aversion moves it right, and the      *)
(* combined treatment lies between altruism and control.                   *)
(***************************************************************************)
Kept(l) == run.kept[l] # NoValue
Left(l, r) == Kept(l) /\ Kept(r) => Less(run.kept[l], run.kept[r])

C15_TreatmentOrder ==
    Rendering /\ Configured =>
        /\ Left("e_alt", "e_comb")
        /\ Left("e_comb", "e_control")
        /\ Left("e_control", "e_loss")
        /\ Left("e_alt", "e_control")

\* the final comparison (lines 763-766) has assigned the four optima
C15_Witness ==
    /\ Rendering
    /\ Configured
    /\ \A l \in {"e_control", "e_alt", "e_loss", "e_comb"} : Kept(l)
    /\ run.pc > 1
    /\ Script[run.pc - 1].line = 766

(***************************************************************************)
(* C16: every equilibrium point a rendering run marks lies inside the      *)
(* plotted domain.  For the shipped parameters each optimum e_star(k) of   *)
(* the four multipliers is in the effort range [0, 1] and the payoff at a  *)
(* marked optimum is in the payoff range [-1, 4] of axes_payoff; and for   *)
(* any parameters and any multiplier e_star returns a real number that is  *)
(* not negative.                                                           *)
(***************************************************************************)
Within(lo, x, hi) == IsReal(x) /\ Leq(FromInt(lo), x) /\ Leq(x, FromInt(hi))

\* the call that has returned is payoff(local, k) at a kept optimum
Marked == Rendering /\ run.pc > 1 /\ Returns("payoff") /\ Script[run.pc - 1].loc # ""

C16_MarkedPointsInsideAxes ==
    /\ Returns("e_star") => IsReal(call.ret) /\ Sign(call.ret) >= 0
    /\ Returns("e_star") /\ Configured /\ call.k \in Treatments(self) =>
           Within(0, call.ret, 1)
    /\ Marked /\ Configured =>
           Within(0, call.e, 1) /\ Within(-1, call.ret, 4)

\* line 783 marks (e_loss, payoff(e_loss, LAMBDA)), the highest of the four
\* points, at a payoff above 3
C16_Witness ==
    /\ Marked
    /\ Configured
    /\ Script[run.pc - 1].line = 783
    /\ call.k = LAMBDA_
    /\ Less(FromInt(3), call.ret)
====
